---- MODULE Spec2Model ----
(***************************************************************************)
(* Goedel's System T in TypeScript (src/src/godel-t.ts).                   *)
(*                                                                         *)
(* The library is a set of pure functions, every one of them built from    *)
(* the primitive recursor Rec.  The functions are operators here, computed *)
(* as the code computes them (unary recursion through Rec, comparison by   *)
(* truncated subtraction).  The statements at the end of the file that     *)
(* call the functions one after the other are the actions: each call       *)
(* leaves the function, its arguments and the value it returned in the     *)
(* state.  A call of Rec itself, and the call of Rec that add makes, are   *)
(* unfolded frame by frame so that the invocations of the step function    *)
(* can be observed.                                                        *)
(***************************************************************************)
EXTENDS Integers, Sequences, FiniteSets, TLC

(* Bounds of the model *)
MaxNat == 7
MaxPrime == 10
MaxIter == 3
MaxAck == 2

Nats == 0..MaxNat

(***************************************************************************)
(* Numerals, Cases and the recursor                                        *)
(***************************************************************************)
Zero == 0

Succ(x) == x + 1

Cases(cond, a, b) == IF cond THEN a ELSE b

(* The step functions handed to Rec, and the unary functions handed to     *)
(* iterate, are closures: a tuple whose first element names the code and   *)
(* whose other elements are the variables it captured.  ApplyStep calls a  *)
(* step function, Apply a OneArityNumericFn.                               *)
RECURSIVE Rec(_, _, _), ApplyStep(_, _, _), Apply(_, _)

(***************************************************************************)
(* Arithmetic                                                              *)
(***************************************************************************)

(* add with the step taking the successor of the predecessor z, not of w *)
addStepOfPredecessor(z, w) == Succ(z)

addStep(z, w) == Succ(w)

add(x, y) == Rec(x, y, <<"add">>)

multiplyStep(x, z, w) == add(x, w)

multiply(x, y) == Rec(y, Zero, <<"multiply", x>>)

doubleStep(z, w) == Succ(Succ(w))

double(x) == Rec(x, Zero, <<"double">>)

(* pred with the step returning the accumulated value w, not z *)
predStepAccumulated(z, w) == w

predStep(z, w) == z

pred(x) == Rec(x, Zero, <<"pred">>)

subtractStep(z, w) == pred(w)

subtract(x, y) == Rec(y, x, <<"subtract">>)

isZeroStep(z, w) == FALSE

isZero(x) == Rec(x, TRUE, <<"isZero">>)

(***************************************************************************)
(* Booleans and comparisons                                                *)
(***************************************************************************)
not(x) == Cases(x, FALSE, TRUE)

and(x, y) == Cases(x, y, FALSE)

eq(x, y) == and(isZero(subtract(x, y)), isZero(subtract(y, x)))

lt(x, y) == not(isZero(subtract(y, x)))

(***************************************************************************)
(* remainder, divide, isPrime                                              *)
(***************************************************************************)

(* remainder wrapping around at y, not at pred(y) *)
remainderStepWrapAtY(y, z, w) == Cases(eq(y, w), Zero, Succ(w))

remainderStep(y, z, w) == Cases(eq(pred(y), w), Zero, Succ(w))

remainder(x, y) ==
    Cases(lt(x, y),
          Zero,
          Rec(x, Zero, <<"remainder", y>>))

divideStep(y, z, w) == Cases(eq(pred(y), remainder(z, y)), Succ(w), w)

divide(x, y) ==
    Cases(lt(x, y),
          Zero,
          Rec(x, 1, <<"divide", y>>))

(* isPrime with the arguments of remainder exchanged *)
isPrimeStepExchanged(x, z, w) == Cases(isZero(remainder(z, x)), Succ(w), w)

isPrimeStep(x, z, w) == Cases(isZero(remainder(x, z)), Succ(w), w)

isPrime(x) ==
    Cases(eq(x, 1),
          TRUE,
          eq(2, Rec(x, Zero, <<"isPrime", x>>)))

(***************************************************************************)
(* Functions as values                                                     *)
(***************************************************************************)
compose(f, g) == <<"compose", f, g>>

identity == <<"id">>

iterateStep(f, z, w) == compose(f, w)

(* iterate starting from f, not from the identity *)
iterateFromF(f, n) == Rec(n, f, <<"iterate", f>>)

iterate(f, n) == Rec(n, identity, <<"iterate", f>>)

ackermannStep(z, w) == iterate(w, Apply(w, Succ(Zero)))

ackermann(x) == Rec(x, <<"Succ">>, <<"ackermann">>)

(* f(x) for a closure f; compose(f, g) is x => f(g(x)), where g(x) has     *)
(* returned its value y before f is entered                                *)
Apply(f, x) ==
    CASE f[1] = "Succ"    -> Succ(x)
      [] f[1] = "pred"    -> pred(x)
      [] f[1] = "double"  -> double(x)
      [] f[1] = "id"      -> x
      [] f[1] = "compose" ->
             CHOOSE r \in {Apply(f[2], y) : y \in {Apply(f[3], x)}} : TRUE

(* t(z, w) for a closure t *)
ApplyStep(t, z, w) ==
    CASE t[1] = "add"       -> addStep(z, w)
      [] t[1] = "multiply"  -> multiplyStep(t[2], z, w)
      [] t[1] = "double"    -> doubleStep(z, w)
      [] t[1] = "pred"      -> predStep(z, w)
      [] t[1] = "subtract"  -> subtractStep(z, w)
      [] t[1] = "isZero"    -> isZeroStep(z, w)
      [] t[1] = "remainder" -> remainderStep(t[2], z, w)
      [] t[1] = "divide"    -> divideStep(t[2], z, w)
      [] t[1] = "isPrime"   -> isPrimeStep(t[2], z, w)
      [] t[1] = "iterate"   -> iterateStep(t[2], z, w)
      [] t[1] = "ackermann" -> ackermannStep(z, w)

(* Rec 0 s t = s;  Rec sn s t = t n (Rec n s t).  JavaScript calls by      *)
(* value: the recursive call has returned before t is entered, so w is     *)
(* bound to the value of Rec(sn - 1, s, t).                                *)
Rec(sn, s, t) ==
    IF sn = Zero
    THEN s
    ELSE CHOOSE r \in {ApplyStep(t, sn - 1, w) : w \in {Rec(sn - 1, s, t)}} : TRUE

(* The unary functions of the library that the calls hand to iterate, and  *)
(* the step functions without captured variables that they hand to Rec     *)
Fns == {"Succ", "pred", "double"}

Steps == {"add", "double", "pred", "subtract"}

(***************************************************************************)
(* State                                                                   *)
(***************************************************************************)
VARIABLES
    pc,      \* "idle": nothing called yet; "call": a frame of Rec was just
             \* entered; "return": a frame of Rec just returned; "done": the
             \* called function has returned
    call,    \* the function called, its numeric arguments args and the
             \* name f of its function argument ("none" without one)
    result,  \* the number the call returned (meaningful when pc = "done")
    truth,   \* the boolean the call returned, when it returns a boolean
    stack,   \* the sn of every active frame of Rec, outermost first
    s,       \* the base handed to Rec
    t,       \* the step function handed to Rec (a closure)
    ret,     \* the value the last finished frame returned
    calls    \* the invocations of t so far: predecessor z, value w, result r

vars == <<pc, call, result, truth, stack, s, t, ret, calls>>

(* add recursing on its second argument with its first as the base *)
addCallOnSecond(x, y) == [sn |-> y, s |-> x, t |-> <<"add">>]

(* The call of Rec in the body of add *)
addCall(x, y) == [sn |-> x, s |-> y, t |-> <<"add">>]

Init ==
    /\ pc = "idle"
    /\ call = [fn |-> "none", args |-> <<>>, f |-> "none"]
    /\ result = 0
    /\ truth = FALSE
    /\ stack = <<>>
    /\ s = 0
    /\ t = <<"none">>
    /\ ret = 0
    /\ calls = <<>>

Ready == pc \in {"idle", "done"}

(* The state after a call evaluated in one step has returned number v *)
Returned(fn, args, f, v) ==
    /\ pc' = "done"
    /\ call' = [fn |-> fn, args |-> args, f |-> f]
    /\ result' = v
    /\ truth' = FALSE
    /\ stack' = <<>>
    /\ s' = 0
    /\ t' = <<"none">>
    /\ ret' = 0
    /\ calls' = <<>>

(* The state after a call evaluated in one step has returned boolean b *)
ReturnedTruth(fn, args, b) ==
    /\ pc' = "done"
    /\ call' = [fn |-> fn, args |-> args, f |-> "none"]
    /\ result' = 0
    /\ truth' = b
    /\ stack' = <<>>
    /\ s' = 0
    /\ t' = <<"none">>
    /\ ret' = 0
    /\ calls' = <<>>

(* The state after a call has entered Rec(sn, base, step) *)
EnterRec(fn, args, f, sn, base, step) ==
    /\ pc' = "call"
    /\ call' = [fn |-> fn, args |-> args, f |-> f]
    /\ result' = 0
    /\ truth' = FALSE
    /\ stack' = <<sn>>
    /\ s' = base
    /\ t' = step
    /\ ret' = 0
    /\ calls' = <<>>

(***************************************************************************)
(* The frames of Rec                                                       *)
(***************************************************************************)
Top == stack[Len(stack)]

Pop == SubSeq(stack, 1, Len(stack) - 1)

(* sn === Zero is false: evaluate the recursive call Rec(sn - 1, s, t) *)
RecDescend ==
    /\ pc = "call"
    /\ Top # Zero
    /\ stack' = Append(stack, Top - 1)
    /\ UNCHANGED <<pc, call, result, truth, s, t, ret, calls>>

(* Rec returning Zero, not s, from its innermost frame *)
RecBaseZero ==
    /\ pc = "call"
    /\ Top = Zero
    /\ ret' = Zero
    /\ stack' = Pop
    /\ pc' = "return"
    /\ UNCHANGED <<call, result, truth, s, t, calls>>

(* sn === Zero: the frame returns s *)
RecBase ==
    /\ pc = "call"
    /\ Top = Zero
    /\ ret' = s
    /\ stack' = Pop
    /\ pc' = "return"
    /\ UNCHANGED <<call, result, truth, s, t, calls>>

(* the recursive call has returned w: the frame returns t(sn - 1, w) *)
RecApplyStep ==
    /\ pc = "return"
    /\ stack # <<>>
    /\ LET z == Top - 1
           w == ret
           r == ApplyStep(t, z, w)
       IN  /\ calls' = Append(calls, [z |-> z, w |-> w, r |-> r])
           /\ ret' = r
    /\ stack' = Pop
    /\ UNCHANGED <<pc, call, result, truth, s, t>>

(* the outermost frame has returned: the caller has its value *)
RecReturn ==
    /\ pc = "return"
    /\ stack = <<>>
    /\ result' = ret
    /\ pc' = "done"
    /\ UNCHANGED <<call, truth, stack, s, t, ret, calls>>

(***************************************************************************)
(* The calls                                                               *)
(***************************************************************************)
CallRec ==
    /\ Ready
    /\ \E n \in Nats, base \in Nats, step \in Steps :
           EnterRec("Rec", <<n, base>>, step, n, base, <<step>>)

CallAdd ==
    /\ Ready
    /\ \E x \in Nats, y \in Nats :
           LET c == addCall(x, y)
           IN  EnterRec("add", <<x, y>>, "none", c.sn, c.s, c.t)

CallMultiply ==
    /\ Ready
    /\ \E x \in Nats, y \in Nats : Returned("multiply", <<x, y>>, "none", multiply(x, y))

CallPred ==
    /\ Ready
    /\ \E x \in Nats : Returned("pred", <<x>>, "none", pred(x))

CallSubtract ==
    /\ Ready
    /\ \E x \in Nats, y \in Nats : Returned("subtract", <<x, y>>, "none", subtract(x, y))

CallRemainder ==
    /\ Ready
    /\ \E x \in Nats, y \in Nats : Returned("remainder", <<x, y>>, "none", remainder(x, y))

CallDivide ==
    /\ Ready
    /\ \E x \in Nats, y \in Nats : Returned("divide", <<x, y>>, "none", divide(x, y))

CallIsPrime ==
    /\ Ready
    /\ \E x \in 0..MaxPrime : ReturnedTruth("isPrime", <<x>>, isPrime(x))

CallIterate ==
    /\ Ready
    /\ \E f \in Fns, n \in 0..MaxIter, x \in 0..MaxIter :
           Returned("iterate", <<n, x>>, f, Apply(iterate(<<f>>, n), x))

CallAckermann ==
    /\ Ready
    /\ \E m \in 0..MaxAck, n \in Nats :
           Returned("ackermann", <<m, n>>, "none", Apply(ackermann(m), n))

Next ==
    \/ CallRec
    \/ CallAdd
    \/ CallMultiply
    \/ CallPred
    \/ CallSubtract
    \/ CallRemainder
    \/ CallDivide
    \/ CallIsPrime
    \/ CallIterate
    \/ CallAckermann
    \/ RecDescend
    \/ RecBase
    \/ RecApplyStep
    \/ RecReturn

Spec == Init /\ [][Next]_vars

(* The code is synchronous: a call of Rec that has started runs on until   *)
(* it returns.                                                             *)
FairSpec ==
    Spec /\ WF_vars(RecDescend \/ RecBase \/ RecApplyStep \/ RecReturn)

Done(fn) == pc = "done" /\ call.fn = fn

(***************************************************************************)
(* Arithmetic of the naturals, to compare the library with                 *)
(***************************************************************************)
Monus(a, b) == IF a <= b THEN 0 ELSE a - b

IsPrimeNumber(x) == x >= 2 /\ \A d \in 2..(x - 1) : x % d # 0

(***************************************************************************)
(* Division and remainder                                                  *)
(***************************************************************************)

(* C1: for b > 0, add(multiply(divide(a, b), b), remainder(a, b)) is a.    *)
DivModRelation ==
    (Done("divide") /\ call.args[2] > 0) =>
        LET a == call.args[1]
            b == call.args[2]
        IN  a = add(multiply(result, b), remainder(a, b))

(* C2: for y > 0, divide(x, y) is the integer quotient of x by y; it is 0  *)
(* when x < y.                                                             *)
DivideIsQuotient ==
    (Done("divide") /\ call.args[2] > 0) =>
        LET x == call.args[1]
            y == call.args[2]
        IN  /\ result = x \div y
            /\ (x < y => result = 0)

(* C4: for y > 0, remainder(x, y) is 0 when x < y and x mod y when x >= y, *)
(* and it is less than y.                                                  *)
RemainderSpec ==
    (Done("remainder") /\ call.args[2] > 0) =>
        LET x == call.args[1]
            y == call.args[2]
        IN  /\ result = (IF x < y THEN 0 ELSE x % y)
            /\ result < y

RemainderWitness ==
    /\ Done("remainder")
    /\ call.args[2] > 1
    /\ call.args[1] > call.args[2]
    /\ result > 0

(***************************************************************************)
(* Ackermann                                                               *)
(***************************************************************************)

(* C3: ackermann(0)(n) is n + 1, and ackermann(m + 1)(n) is ackermann(m)   *)
(* applied n times to ackermann(m)(1).                                     *)
AckermannRecurrence ==
    Done("ackermann") =>
        LET m == call.args[1]
            n == call.args[2]
        IN  result = (IF m = 0 THEN n + 1
                      ELSE Apply(iterate(ackermann(m - 1), n),
                                 Apply(ackermann(m - 1), 1)))

(***************************************************************************)
(* Iteration                                                               *)
(***************************************************************************)

(* C5: iterate(f, m + n)(x) is iterate(f, m)(iterate(f, n)(x)); iterate(f, *)
(* 0) is the identity and iterate(f, 2)(x) is f(f(x)).                     *)
IterateLaw ==
    Done("iterate") =>
        LET f == <<call.f>>
            k == call.args[1]
            x == call.args[2]
        IN  /\ \A m \in 0..k :
                   result = Apply(iterate(f, m), Apply(iterate(f, k - m), x))
            /\ (k = 0 => result = x)
            /\ (k = 2 => result = Apply(f, Apply(f, x)))

IterateWitness ==
    /\ Done("iterate")
    /\ call.f = "double"
    /\ call.args[1] >= 2
    /\ call.args[2] > 0
    /\ result > call.args[2]

(***************************************************************************)
(* Truncated subtraction                                                   *)
(***************************************************************************)

(* C6: subtract(a, b) is 0 when a <= b, a when b = 0 and a - b when a > b; *)
(* pred(0) is 0; neither subtract nor pred returns a negative number.      *)
SubtractTruncated ==
    /\ Done("subtract") =>
           LET a == call.args[1]
               b == call.args[2]
           IN  /\ (a <= b => result = 0)
               /\ (b = 0 => result = a)
               /\ (a > b => result = a - b)
               /\ result >= 0
    /\ Done("pred") =>
           /\ (call.args[1] = 0 => result = 0)
           /\ result = Monus(call.args[1], 1)
           /\ result >= 0

SubtractWitness ==
    /\ Done("subtract")
    /\ call.args[1] > call.args[2]
    /\ call.args[2] > 1
    /\ result > 0

(***************************************************************************)
(* add and multiply                                                        *)
(***************************************************************************)

(* C7: add and multiply are commutative and associative.                   *)
AddMultiplyLaws ==
    /\ Done("add") =>
           LET a == call.args[1]
               b == call.args[2]
           IN  /\ result = add(b, a)
               /\ \A c \in Nats : add(result, c) = add(a, add(b, c))
    /\ Done("multiply") =>
           LET a == call.args[1]
               b == call.args[2]
           IN  /\ result = multiply(b, a)
               /\ \A c \in Nats :
                      multiply(result, c) = multiply(a, multiply(b, c))

AddMultiplyWitness ==
    /\ Done("multiply")
    /\ call.args[1] > 1
    /\ call.args[2] > call.args[1]
    /\ result = call.args[1] * call.args[2]

(***************************************************************************)
(* Primality                                                               *)
(***************************************************************************)

(* C8: isPrime(1) is true; for x >= 2, isPrime(x) is true exactly when x   *)
(* is a prime number; for x # 1 it is true exactly when the number of z in *)
(* [0, x) with remainder(x, z) = 0 is 2.                                   *)
IsPrimeSpec ==
    Done("isPrime") =>
        LET x == call.args[1]
        IN  /\ (x = 1 => truth = TRUE)
            /\ (x >= 2 => truth = IsPrimeNumber(x))
            /\ (x # 1 =>
                  truth = (Cardinality({z \in 0..(x - 1) :
                                            remainder(x, z) = 0}) = 2))

IsPrimeWitness ==
    /\ Done("isPrime")
    /\ call.args[1] > 5
    /\ truth = TRUE

(***************************************************************************)
(* The recursor, frame by frame                                            *)
(***************************************************************************)
Running == pc \in {"call", "return"}

RecTrace ==
    call.fn = "Rec" =>
        LET n == call.args[1]
            base == call.args[2]
        IN  /\ Running =>
                 /\ \A i \in 1..Len(stack) : stack[i] = n - (i - 1)
                 /\ (pc = "call" => stack # <<>> /\ calls = <<>>)
                 /\ (pc = "return" => Len(calls) = n - Len(stack))
            /\ \A i \in 1..Len(calls) : calls[i].z = i - 1
            /\ (calls # <<>> => calls[1].w = base)
            /\ \A i \in 2..Len(calls) : calls[i].w = calls[i - 1].r
            /\ pc = "done" =>
                 /\ Len(calls) = n
                 /\ result = (IF n = 0 THEN base ELSE calls[n].r)

(* C9: Rec(n, base, step) descends through n, n - 1, ..., 0, invokes step  *)
(* exactly n times with predecessors 0, 1, ..., n - 1 in that order, the   *)
(* first invocation on base and each later one on the result of the one    *)
(* before, and terminates; Rec(0, base, step) returns base without         *)
(* invoking step.                                                          *)
RecTerminatesAndUnwinds ==
    /\ []RecTrace
    /\ (Running ~> (pc = "done"))

RecWitness ==
    /\ Done("Rec")
    /\ call.args[1] >= 3
    /\ call.args[2] > 0
    /\ Len(calls) = call.args[1]

(* C10, as the specification states it: add(x, y) enters the recursor with *)
(* recursion variable y and base x, and applies the successor step y       *)
(* times.                                                                  *)
AddRecursOnSecond ==
    Done("add") =>
        /\ s = call.args[1]
        /\ Len(calls) = call.args[2]

(* C10, amended: add(x, y) enters the recursor with recursion variable x   *)
(* and base y, and applies the successor step x times.                     *)
AddRecursOnFirst ==
    Done("add") =>
        /\ s = call.args[2]
        /\ Len(calls) = call.args[1]
        /\ \A i \in 1..Len(calls) : calls[i].r = calls[i].w + 1
        /\ result = call.args[1] + call.args[2]

AddWitness ==
    /\ Done("add")
    /\ call.args[1] > call.args[2]
    /\ call.args[2] > 0
    /\ Len(calls) = call.args[1]

====
